---- MODULE Spec2Model ----
(***************************************************************************)
(* A model of the Shopify theme MCP server in its three entry points:      *)
(*   "sse"   - src/index.js          (SSE transport, session map)          *)
(*   "http"  - src/server.js         (streamable HTTP, one server per POST)*)
(*   "stdio" - src/unnamed/part_000  (stdio pipe)                          *)
(* Three state machines share the module:                                  *)
(*   SpecSSE  - the session map of index.js and its HTTP request handler   *)
(*   SpecProc - the process life cycle (token check, listen, signals)      *)
(*   SpecTool - one tool call at a time against a stateful upstream        *)
(***************************************************************************)
EXTENDS Integers, Sequences, FiniteSets, TLC

VARIABLES
    \* ---- SSE variant: src/index.js:117-154
    transports,     \* the object `transports`: own keys -> transport
    opened,         \* session ids whose /sse stream has opened
    closed,         \* session ids whose stream has emitted 'close'
    lastReq,        \* what the request handler did with the last request
    \* ---- process life cycle
    variant,        \* which entry point this process runs
    TOKEN,          \* process.env.SHOPIFY_ACCESS_TOKEN
    ppc,            \* "load" | "setup" | "running" | "exited"
    exitCode,       \* argument of process.exit, -1 while none was called
    signalled,      \* the signal delivered to the process, "none" before
    killedBy,       \* signal whose default disposition ended the process
    listening,      \* httpServer accepts connections
    closeCalled,    \* httpServer.close() has been called
    connected,      \* server.connect(transport) has been called
    upstreamCalls,  \* number of https.request calls made
    inflight,       \* HTTP requests accepted and not yet finished
    aborted,        \* requests cut off by the process ending
    \* ---- one tool call against the upstream
    themes,         \* upstream: the shop's themes
    assets,         \* upstream: theme id -> key -> asset
    tpc,            \* "idle" | "awaiting" | "settled"
    call,           \* the tool call in progress: variant, tool, arguments
    requestLog,     \* the upstream requests issued for this call
    response,       \* the upstream's answer to the call's request
    outcome,        \* how the tool call ended
    lastWrite       \* the last write_file that succeeded

sseVars  == <<transports, opened, closed, lastReq>>
procVars == <<variant, TOKEN, ppc, exitCode, signalled, killedBy, listening, closeCalled,
              connected, upstreamCalls, inflight, aborted>>
toolVars == <<themes, assets, tpc, call, requestLog, response, outcome, lastWrite>>
vars     == <<sseVars, procVars, toolVars>>

Variants     == {"sse", "http", "stdio"}
HttpVariants == {"sse", "http"}

(***************************************************************************)
(* Bounds of the model.                                                    *)
(***************************************************************************)
MaxSessions == 3
MaxInflight == 3
MaxUpstream == 2

(***************************************************************************)
(* JavaScript values, as far as the handlers use them.                     *)
(***************************************************************************)
JUndefined == [t |-> "undefined"]
JNull      == [t |-> "null"]
JStr(s)    == [t |-> "string", s |-> s]

\* ToBoolean: what `!x` and `x || y` test.
Truthy(v) ==
    CASE v.t = "undefined" -> FALSE
      [] v.t = "null"      -> FALSE
      [] v.t = "string"    -> v.s # ""
      [] OTHER             -> TRUE

\* a || b
Or(a, b) == IF Truthy(a) THEN a ELSE b

JNum(d)    == [t |-> "number", digits |-> d]
JBool(b)   == [t |-> "boolean", b |-> b]
JArr(e)    == [t |-> "array", e |-> e]
\* An object literal: its properties in insertion order.
F(k, v)    == [k |-> k, v |-> v]
JObj(f)    == [t |-> "jobject", f |-> f]

\* o.name: undefined when o has no such property (or is a string).
Get(o, name) ==
    IF o.t # "jobject" THEN JUndefined
    ELSE LET idx == {i \in 1..Len(o.f) : o.f[i].k = name} IN
         IF idx = {} THEN JUndefined ELSE o.f[CHOOSE i \in idx : TRUE].v

\* String(x) of a number or a string.
String(v) ==
    CASE v.t = "number" -> JStr(v.digits)
      [] v.t = "string" -> v
      [] OTHER          -> JStr(v.t)

(***************************************************************************)
(* Strings that are built from pieces or scanned are sequences of tokens;  *)
(* the string is their concatenation.                                      *)
(***************************************************************************)
RECURSIVE JoinTokens(_)
JoinTokens(toks) ==
    IF toks = <<>> THEN "" ELSE Head(toks) \o JoinTokens(Tail(toks))

\* encodeURIComponent, token by token: reserved characters are escaped.
EncodeToken(tok) ==
    CASE tok = "/" -> "%2F"
      [] tok = "%" -> "%25"
      [] tok = " " -> "%20"
      [] OTHER     -> tok
EncodeURIComponent(toks) == [i \in 1..Len(toks) |-> EncodeToken(toks[i])]

(***************************************************************************)
(* JSON.stringify(value, null, indent) for indent 0 (none given) and 2.    *)
(***************************************************************************)
RECURSIVE Pad(_)
Pad(n) == IF n <= 0 THEN "" ELSE " " \o Pad(n - 1)

NewLine(indent, depth) == IF indent = 0 THEN "" ELSE "\n" \o Pad(indent * depth)

\* Properties whose value is undefined are left out of an object.
DefinedFields(f) == SelectSeq(f, LAMBDA p : p.v.t # "undefined")

RECURSIVE Ser(_, _, _), SerElems(_, _, _), SerFields(_, _, _)
Ser(v, indent, depth) ==
    CASE v.t = "string"    -> "\"" \o v.s \o "\""
      [] v.t = "number"    -> v.digits
      [] v.t = "boolean"   -> IF v.b THEN "true" ELSE "false"
      [] v.t = "null"      -> "null"
      [] v.t = "undefined" -> "null"
      [] v.t = "array"     ->
            IF v.e = <<>> THEN "[]"
            ELSE "[" \o NewLine(indent, depth + 1) \o SerElems(v.e, indent, depth + 1)
                     \o NewLine(indent, depth) \o "]"
      [] v.t = "jobject"   ->
            IF DefinedFields(v.f) = <<>> THEN "{}"
            ELSE "{" \o NewLine(indent, depth + 1)
                     \o SerFields(DefinedFields(v.f), indent, depth + 1)
                     \o NewLine(indent, depth) \o "}"
SerElems(e, indent, depth) ==
    Ser(Head(e), indent, depth) \o
    (IF Len(e) = 1 THEN ""
     ELSE "," \o NewLine(indent, depth) \o SerElems(Tail(e), indent, depth))
SerFields(f, indent, depth) ==
    "\"" \o Head(f).k \o "\":" \o (IF indent = 0 THEN "" ELSE " ")
         \o Ser(Head(f).v, indent, depth) \o
    (IF Len(f) = 1 THEN ""
     ELSE "," \o NewLine(indent, depth) \o SerFields(Tail(f), indent, depth))

\* JSON.stringify: undefined at the top level gives undefined, not a string.
JSONStringify(v, indent) ==
    IF v.t = "undefined" THEN JUndefined ELSE JStr(Ser(v, indent, 0))

(***************************************************************************)
(* SSE variant: the session map and the request handler of index.js.       *)
(***************************************************************************)
\* The ids SSEServerTransport gives its sessions (random UUIDs).
SessionIds == { "uuid-" \o ToString(n) : n \in 1..MaxSessions }

\* `transports` is a plain object literal: besides its own keys, a lookup
\* finds what Object.prototype holds.
ObjectPrototypeKeys == {"constructor", "__proto__"}

\* The sessionId values a POST /message can carry: any string of the
\* query, and "null" for a missing parameter (searchParams.get gives null,
\* which the property access turns into the key "null").
PostSessionIds == SessionIds \cup ObjectPrototypeKeys \cup {"null", "stale"}

Transport(sid) == [t |-> "object", class |-> "SSEServerTransport", sessionId |-> sid]
Inherited(k)   == [t |-> "object", class |-> "Object.prototype", name |-> k]

\* transports[sessionId]
GetTransport(obj, k) ==
    IF k \in DOMAIN obj THEN obj[k]
    ELSE IF k \in ObjectPrototypeKeys THEN Inherited(k)
    ELSE JUndefined

\* transports[transport.sessionId] = transport
Register(obj, sid) ==
    [k \in DOMAIN obj \cup {sid} |-> IF k = sid THEN Transport(sid) ELSE obj[k]]

\* delete transports[transport.sessionId]
\* (faulty variant: a close that empties the map)
DeregisterAll(obj, sid) == [k \in {} |-> JUndefined]
Deregister(obj, sid) == [k \in DOMAIN obj \ {sid} |-> obj[k]]

IsLive(sid) == sid \in opened \ closed

\* GET /sse: a new transport with a fresh session id is registered, the
\* close handler is installed and the server connects to the transport.
SseConnect(sid) ==
    /\ sid \in SessionIds \ opened
    /\ transports' = Register(transports, sid)
    /\ opened' = opened \cup {sid}
    /\ lastReq' = [op |-> "sse", sid |-> sid, live |-> TRUE,
                   response |-> "event-stream", handledBy |-> "none"]
    /\ UNCHANGED closed

\* res.on('close'): the stream of session sid has closed.
StreamClose(sid) ==
    /\ IsLive(sid)
    /\ transports' = Deregister(transports, sid)
    /\ closed' = closed \cup {sid}
    /\ lastReq' = [op |-> "close", sid |-> sid, live |-> FALSE,
                   response |-> "none", handledBy |-> "none"]
    /\ UNCHANGED opened

\* What POST /message?sessionId=sid does: 404 when the lookup is falsy,
\* else transport.handlePostMessage(req, res); a value without that method
\* makes the call throw a TypeError and no response is written.
PostOutcome(obj, sid) ==
    LET transport == GetTransport(obj, sid) IN
    IF ~Truthy(transport)
    THEN [response |-> "404 Session not found", handledBy |-> "none"]
    ELSE IF transport.class = "SSEServerTransport"
    THEN [response |-> "delegated", handledBy |-> transport.sessionId]
    ELSE [response |-> "TypeError", handledBy |-> "none"]

PostMessage(sid) ==
    /\ sid \in PostSessionIds
    /\ lastReq' = [op |-> "post", sid |-> sid, live |-> IsLive(sid)]
                    @@ PostOutcome(transports, sid)
    /\ UNCHANGED <<transports, opened, closed>>

\* OPTIONS, GET /health and every other route: answered at once.
OtherRoute(route) ==
    /\ route \in {"OPTIONS", "GET /health", "other"}
    /\ lastReq' = [op |-> route, sid |-> "none", live |-> FALSE,
                   response |-> CASE route = "OPTIONS" -> "200"
                                  [] route = "GET /health" -> "200 ok"
                                  [] OTHER -> "404 Not found",
                   handledBy |-> "none"]
    /\ UNCHANGED <<transports, opened, closed>>

NoRequest == [op |-> "none", sid |-> "none", live |-> FALSE,
              response |-> "none", handledBy |-> "none"]

SseIdle ==
    /\ transports = [k \in {} |-> JUndefined]
    /\ opened = {}
    /\ closed = {}
    /\ lastReq = NoRequest

(***************************************************************************)
(* Process life cycle.                                                     *)
(***************************************************************************)
\* process.env.SHOPIFY_ACCESS_TOKEN: unset, set to "", or set to a token.
TokenValues == {JUndefined, JStr(""), JStr("shpat_x")}

\* if (!TOKEN) { ...; process.exit(1); }
\* (faulty variant: the check left out)
TokenMissingNever(tok) == FALSE
TokenMissing(tok) == ~Truthy(tok)

\* The signals a variant installs a handler for.
HandledSignals(v) ==
    CASE v = "sse"   -> {"SIGINT", "SIGTERM"}
      [] v = "http"  -> {"SIGTERM"}
      [] v = "stdio" -> {}

Signals == {"SIGINT", "SIGTERM"}

CheckToken ==
    /\ ppc = "load"
    /\ IF TokenMissing(TOKEN)
       THEN /\ ppc' = "exited"
            /\ exitCode' = 1
       ELSE /\ ppc' = "setup"
            /\ UNCHANGED exitCode
    /\ UNCHANGED <<variant, TOKEN, signalled, killedBy, listening, closeCalled, connected,
                   upstreamCalls, inflight, aborted>>

\* The rest of the script: tools are registered; the HTTP variants start
\* the listener and install their signal handlers, the pipe variant
\* connects its one transport.
Setup ==
    /\ ppc = "setup"
    /\ ppc' = "running"
    /\ IF variant \in HttpVariants
       THEN listening' = TRUE /\ UNCHANGED connected
       ELSE connected' = TRUE /\ UNCHANGED listening
    /\ UNCHANGED <<variant, TOKEN, exitCode, signalled, killedBy, closeCalled,
                   upstreamCalls, inflight, aborted>>

\* The listener takes a request; GET /sse and POST /mcp connect a
\* transport on the way in, the other routes do not.
AcceptRequest(connects) ==
    /\ ppc = "running"
    /\ listening
    /\ inflight < MaxInflight
    /\ inflight' = inflight + 1
    /\ connected' = (connected \/ connects)
    /\ UNCHANGED <<variant, TOKEN, ppc, exitCode, signalled, killedBy, listening,
                   closeCalled, upstreamCalls, aborted>>

\* A tool call of a connected client reaches shopifyRequest.
IssueUpstream ==
    /\ ppc = "running"
    /\ connected
    /\ upstreamCalls < MaxUpstream
    /\ upstreamCalls' = upstreamCalls + 1
    /\ UNCHANGED <<variant, TOKEN, ppc, exitCode, signalled, killedBy, listening,
                   closeCalled, connected, inflight, aborted>>

FinishRequest ==
    /\ ppc = "running"
    /\ inflight > 0
    /\ inflight' = inflight - 1
    /\ UNCHANGED <<variant, TOKEN, ppc, exitCode, signalled, killedBy, listening,
                   closeCalled, connected, upstreamCalls, aborted>>

\* A signal reaches the running process: the installed handler calls
\* httpServer.close() and then process.exit(0) in the same turn, so the
\* requests still in flight end with the process; without a handler the
\* default disposition ends the process.
Signal(sig) ==
    /\ sig \in Signals
    /\ ppc = "running"
    /\ ppc' = "exited"
    /\ signalled' = sig
    /\ listening' = FALSE
    /\ aborted' = inflight
    /\ IF sig \in HandledSignals(variant)
       THEN /\ closeCalled' = TRUE
            /\ exitCode' = 0
            /\ UNCHANGED killedBy
       ELSE /\ killedBy' = sig
            /\ UNCHANGED <<closeCalled, exitCode>>
    /\ UNCHANGED <<variant, TOKEN, connected, upstreamCalls, inflight>>

ProcIdle ==
    /\ variant = "sse"
    /\ TOKEN = JStr("shpat_x")
    /\ ppc = "running"
    /\ exitCode = -1
    /\ signalled = "none"
    /\ killedBy = "none"
    /\ listening = TRUE
    /\ closeCalled = FALSE
    /\ connected = FALSE
    /\ upstreamCalls = 0
    /\ inflight = 0
    /\ aborted = 0

(***************************************************************************)
(* Configuration (environment, with the defaults of the source).           *)
(***************************************************************************)
SHOP            == "ciro-jewelry.myshopify.com"
ACTIVE_THEME_ID == "161795899724"
API_VERSION     == "2026-04"

(***************************************************************************)
(* The upstream REST API, as a stateful stand-in: themes, and assets       *)
(* stored by (theme id, key).  A body on the wire is its text together     *)
(* with the JSON value the text parses to, if it parses.                   *)
(***************************************************************************)
MaxThemes == 3

OtherThemeId == "222"
ThemeIds     == {ACTIVE_THEME_ID, OtherThemeId}

Wire(v)    == [text |-> Ser(v, 0, 0), isJson |-> TRUE, json |-> v]
RawBody(s) == [text |-> s, isJson |-> FALSE, json |-> JUndefined]
NoBody     == RawBody("")

Theme(id, name, role) ==
    JObj(<<F("id", JNum(id)), F("name", JStr(name)), F("role", JStr(role)),
           F("updated_at", JStr("t0"))>>)

\* A shop with a published theme, and one where no theme has role main.
ThemeFixtures ==
    { <<Theme(ACTIVE_THEME_ID, "Dawn", "main"), Theme(OtherThemeId, "Old", "unpublished")>>,
      <<Theme(ACTIVE_THEME_ID, "Dawn", "unpublished"), Theme(OtherThemeId, "Old", "unpublished")>> }

StoreKeys   == <<"a.liquid", "assets/b.png", "config/settings_data.json", "sections/h.liquid">>
StoreKeySet == {StoreKeys[i] : i \in 1..Len(StoreKeys)}

TextAsset(k, val, at) ==
    JObj(<<F("key", JStr(k)), F("value", val), F("updated_at", JStr(at)), F("size", JNum("1"))>>)
BinaryAsset(k) ==
    JObj(<<F("key", JStr(k)), F("attachment", JStr("QUJD")), F("updated_at", JStr("t0")),
           F("size", JNum("3"))>>)
BareAsset(k) ==
    JObj(<<F("key", JStr(k)), F("public_url", JStr("https://cdn/" \o k)),
           F("updated_at", JStr("t0")), F("size", JNum("0"))>>)

InitialAssets ==
    [th \in ThemeIds |-> [k \in StoreKeySet |->
        CASE th = ACTIVE_THEME_ID /\ k = "a.liquid"                  -> TextAsset(k, JStr("x"), "t0")
          [] th = ACTIVE_THEME_ID /\ k = "assets/b.png"              -> BinaryAsset(k)
          [] th = ACTIVE_THEME_ID /\ k = "config/settings_data.json" -> TextAsset(k, JStr("{}"), "t0")
          [] th = OtherThemeId /\ k = "assets/b.png"                 -> BareAsset(k)
          [] th = OtherThemeId /\ k = "config/settings_data.json"    -> BareAsset(k)
          [] OTHER                                                   -> JUndefined]]

\* The listing of a theme's assets carries no content.
AssetMeta(a) == JObj(SelectSeq(a.f, LAMBDA p : p.k \notin {"value", "attachment"}))

AssetList(store, th) ==
    LET present == SelectSeq(StoreKeys, LAMBDA k : store[th][k].t # "undefined")
    IN  JArr([i \in 1..Len(present) |-> AssetMeta(store[th][present[i]])])

DecodeToken(tok) ==
    CASE tok = "%2F" -> "/"
      [] tok = "%25" -> "%"
      [] tok = "%20" -> " "
      [] OTHER       -> tok
DecodeURIComponent(toks) == [i \in 1..Len(toks) |-> DecodeToken(toks[i])]

Reply(status, data, th, store) ==
    [status |-> status, body |-> Wire(data), themes |-> th, assets |-> store]

NotFound(th, store) == Reply(404, JObj(<<F("errors", JStr("Not Found"))>>), th, store)

\* What the API does with one request, given its themes and its assets.
Serve(req, th, store) ==
    LET p == SubSeq(req.path, 4, Len(req.path))
        underTheme == Len(p) >= 3 /\ p[1] = "themes/" /\ p[2] \in ThemeIds
    IN
    IF SubSeq(req.path, 1, 3) # <<"/admin/api/", API_VERSION, "/">> THEN NotFound(th, store)
    ELSE IF req.method = "GET" /\ p = <<"themes.json">>
    THEN Reply(200, JObj(<<F("themes", JArr(th))>>), th, store)
    ELSE IF req.method = "GET" /\ p = <<"themes.json?role=main">>
    THEN Reply(200, JObj(<<F("themes",
                 JArr(SelectSeq(th, LAMBDA t : Get(t, "role") = JStr("main"))))>>), th, store)
    ELSE IF req.method = "GET" /\ underTheme /\ Len(p) = 3 /\ p[3] = "/assets.json"
    THEN Reply(200, JObj(<<F("assets", AssetList(store, p[2]))>>), th, store)
    ELSE IF req.method = "GET" /\ underTheme /\ Len(p) > 3 /\ p[3] = "/assets.json?asset[key]="
    THEN LET k == JoinTokens(DecodeURIComponent(SubSeq(p, 4, Len(p)))) IN
         IF k \in StoreKeySet /\ store[p[2]][k].t # "undefined"
         THEN Reply(200, JObj(<<F("asset", store[p[2]][k])>>), th, store)
         ELSE NotFound(th, store)
    ELSE IF req.method = "PUT" /\ underTheme /\ Len(p) = 3 /\ p[3] = "/assets.json"
            /\ req.body.isJson
    THEN LET asset == Get(req.body.json, "asset")
             k == Get(asset, "key")
             val == Get(asset, "value")
         IN
         IF k.t = "string" /\ k.s \in StoreKeySet /\ val.t = "string"
         THEN Reply(200, JObj(<<F("asset", AssetMeta(TextAsset(k.s, val, "t1")))>>), th,
                    [store EXCEPT ![p[2]][k.s] = TextAsset(k.s, val, "t1")])
         ELSE Reply(422, JObj(<<F("errors", JStr("Unprocessable"))>>), th, store)
    ELSE IF req.method = "POST" /\ p = <<"themes.json">> /\ req.body.isJson
    THEN LET theme == Get(req.body.json, "theme") IN
         IF Get(theme, "name").t = "string" /\ Len(th) < MaxThemes
         THEN LET new == JObj(<<F("id", JNum(ToString(300 + Len(th)))),
                                F("name", Get(theme, "name")),
                                F("role", Get(theme, "role")),
                                F("updated_at", JStr("t1"))>>)
              IN Reply(201, JObj(<<F("theme", new)>>), Append(th, new), store)
         ELSE Reply(422, JObj(<<F("errors", JStr("Unprocessable"))>>), th, store)
    ELSE NotFound(th, store)

\* The API may also refuse or fail a request, or a proxy may answer in its
\* place with a page that is no JSON.
UpstreamModes == {"serve", "unauthorized", "server_error", "not_json"}

Upstream(mode, req, th, store) ==
    CASE mode = "serve"        -> Serve(req, th, store)
      [] mode = "unauthorized" -> Reply(401, JObj(<<F("errors", JStr("Unauthorized"))>>), th, store)
      [] mode = "server_error" ->
            [status |-> 500, body |-> RawBody("Internal Server Error"),
             themes |-> th, assets |-> store]
      [] mode = "not_json"     ->
            [status |-> 200, body |-> RawBody("<html>"), themes |-> th, assets |-> store]

(***************************************************************************)
(* What a tool handler ends with: a content item with a text, or a throw.  *)
(***************************************************************************)
Text(v)   == [ok |-> TRUE, text |-> v]
Throw(e)  == [ok |-> FALSE, error |-> e]

(***************************************************************************)
(* The tools of src/index.js (SSE variant).                               *)
(***************************************************************************)
\* shopifyRequest up to req.end(): the request that goes out.
Sse_shopifyRequest(method, path, body) ==
    [hostname |-> SHOP,
     method   |-> method,
     path     |-> <<"/admin/api/", API_VERSION, "/">> \o path,
     headers  |-> [token |-> TOKEN, contentType |-> "application/json",
                   contentLength |-> Truthy(body)],
     body     |-> IF Truthy(body) THEN Wire(body) ELSE NoBody]

\* res.on('end'): reject at status >= 400, else resolve with the parsed
\* body, or with the text itself when it does not parse.
\* (faulty variant: the status is not looked at)
Sse_onEndNoStatusCheck(statusCode, body) ==
    [kind |-> "resolved", value |-> IF body.isJson THEN body.json ELSE JStr(body.text)]
Sse_onEnd(statusCode, body) ==
    IF statusCode >= 400
    THEN [kind |-> "rejected",
          error |-> [name |-> "Error",
                     message |-> <<"Shopify API ", ToString(statusCode), ": ", body.text>>]]
    ELSE [kind |-> "resolved", value |-> IF body.isJson THEN body.json ELSE JStr(body.text)]

\* theme_id || ACTIVE_THEME_ID
\* (faulty variant: the argument is ignored)
Sse_themeIdAlwaysDefault(theme_id) == ACTIVE_THEME_ID
Sse_themeId(theme_id) == Or(theme_id, JStr(ACTIVE_THEME_ID)).s

Sse_list_themes_req(args) == Sse_shopifyRequest("GET", <<"themes.json">>, JUndefined)
Sse_list_themes_out(args, data) ==
    LET list == Get(data, "themes") IN
    IF list.t # "array" THEN Throw("TypeError")
    ELSE Text(JSONStringify(JArr([i \in 1..Len(list.e) |->
            LET t == list.e[i] IN JObj(<<F("id", String(Get(t, "id"))), F("name", Get(t, "name")),
                                    F("role", Get(t, "role")),
                                    F("updated_at", Get(t, "updated_at"))>>)]), 2))

Sse_get_active_theme_req(args) ==
    Sse_shopifyRequest("GET", <<"themes.json?role=main">>, JUndefined)
Sse_get_active_theme_out(args, data) ==
    LET list == Get(data, "themes") IN
    IF list.t # "array" THEN Throw("TypeError")
    ELSE Text(JSONStringify(Or(IF list.e = <<>> THEN JUndefined ELSE list.e[1], JNull), 2))

Sse_list_theme_files_req(args) ==
    Sse_shopifyRequest("GET", <<"themes/", Sse_themeId(args.theme_id), "/assets.json">>,
                       JUndefined)
Sse_list_theme_files_out(args, data) ==
    LET list == Get(data, "assets") IN
    IF list.t # "array" THEN Throw("TypeError")
    ELSE Text(JSONStringify(JArr([i \in 1..Len(list.e) |->
            LET a == list.e[i] IN JObj(<<F("key", Get(a, "key")), F("size", Get(a, "size")),
                                        F("updated_at", Get(a, "updated_at"))>>)]), 2))

Sse_read_file_req(args) ==
    Sse_shopifyRequest("GET",
        <<"themes/", Sse_themeId(args.theme_id), "/assets.json?asset[key]=">>
            \o EncodeURIComponent(args.key),
        JUndefined)
Sse_read_file_out(args, data) ==
    LET asset == Get(data, "asset") IN
    IF asset.t # "jobject" THEN Throw("TypeError")
    ELSE Text(Or(Or(Get(asset, "value"), Get(asset, "attachment")),
                 JStr("(binary or no content)")))

Sse_write_file_req(args) ==
    Sse_shopifyRequest("PUT", <<"themes/", Sse_themeId(args.theme_id), "/assets.json">>,
        JObj(<<F("asset", JObj(<<F("key", JStr(JoinTokens(args.key))),
                                 F("value", args.value)>>))>>))
Sse_write_file_out(args, data) ==
    LET asset == Get(data, "asset") IN
    IF asset.t # "jobject" THEN Throw("TypeError")
    ELSE Text(JSONStringify(JObj(<<F("success", JBool(TRUE)), F("key", Get(asset, "key")),
                                 F("updated_at", Get(asset, "updated_at"))>>), 2))

Sse_duplicate_theme_req(args) ==
    Sse_shopifyRequest("POST", <<"themes.json">>,
        JObj(<<F("theme", JObj(<<F("name", args.new_name),
                                 F("role", JStr("unpublished")),
                                 F("src", JStr("https://" \o SHOP \o "/admin/themes/"
                                               \o args.theme_id.s \o "/duplicate"))>>))>>))
Sse_duplicate_theme_out(args, data) ==
    LET t == Get(data, "theme") IN
    IF t.t # "jobject" THEN Throw("TypeError")
    ELSE Text(JSONStringify(JObj(<<F("success", JBool(TRUE)),
                                 F("new_theme", JObj(<<F("id", String(Get(t, "id"))),
                                                       F("name", Get(t, "name"))>>))>>), 2))

Sse_get_theme_settings_req(args) ==
    Sse_shopifyRequest("GET",
        <<"themes/", Sse_themeId(args.theme_id), "/assets.json?asset[key]=",
          "config", "%2F", "settings_data.json">>,
        JUndefined)
Sse_get_theme_settings_out(args, data) ==
    LET asset == Get(data, "asset") IN
    IF asset.t # "jobject" THEN Throw("TypeError")
    ELSE Text(Or(Get(asset, "value"), JStr("(empty)")))

(***************************************************************************)
(* The tools of src/server.js (streamable HTTP variant).                  *)
(***************************************************************************)
\* shopifyRequest up to req.end(): the request that goes out.
Http_shopifyRequest(method, path, body) ==
    [hostname |-> SHOP,
     method   |-> method,
     path     |-> <<"/admin/api/", API_VERSION, "/">> \o path,
     headers  |-> [token |-> TOKEN, contentType |-> "application/json",
                   contentLength |-> Truthy(body)],
     body     |-> IF Truthy(body) THEN Wire(body) ELSE NoBody]

\* res.on('end'): reject at status >= 400, else resolve with the parsed
\* body, or with the text itself when it does not parse.
Http_onEnd(statusCode, body) ==
    IF statusCode >= 400
    THEN [kind |-> "rejected",
          error |-> [name |-> "Error",
                     message |-> <<"Shopify ", ToString(statusCode), ": ", body.text>>]]
    ELSE [kind |-> "resolved", value |-> IF body.isJson THEN body.json ELSE JStr(body.text)]

\* theme_id || ACTIVE_THEME_ID
Http_themeId(theme_id) == Or(theme_id, JStr(ACTIVE_THEME_ID)).s

Http_list_themes_req(args) == Http_shopifyRequest("GET", <<"themes.json">>, JUndefined)
Http_list_themes_out(args, data) ==
    LET list == Get(data, "themes") IN
    IF list.t # "array" THEN Throw("TypeError")
    ELSE Text(JSONStringify(JArr([i \in 1..Len(list.e) |->
            LET t == list.e[i] IN JObj(<<F("id", String(Get(t, "id"))), F("name", Get(t, "name")),
                                    F("role", Get(t, "role"))>>)]), 2))

Http_get_active_theme_req(args) ==
    Http_shopifyRequest("GET", <<"themes.json?role=main">>, JUndefined)
Http_get_active_theme_out(args, data) ==
    LET list == Get(data, "themes") IN
    IF list.t # "array" THEN Throw("TypeError")
    ELSE Text(JSONStringify(IF list.e = <<>> THEN JUndefined ELSE list.e[1], 2))

Http_list_theme_files_req(args) ==
    Http_shopifyRequest("GET", <<"themes/", Http_themeId(args.theme_id), "/assets.json">>,
                       JUndefined)
Http_list_theme_files_out(args, data) ==
    LET list == Get(data, "assets") IN
    IF list.t # "array" THEN Throw("TypeError")
    ELSE Text(JSONStringify(JArr([i \in 1..Len(list.e) |->
            LET a == list.e[i] IN Get(a, "key")]), 2))

Http_read_file_req(args) ==
    Http_shopifyRequest("GET",
        <<"themes/", Http_themeId(args.theme_id), "/assets.json?asset[key]=">>
            \o EncodeURIComponent(args.key),
        JUndefined)
Http_read_file_out(args, data) ==
    LET asset == Get(data, "asset") IN
    IF asset.t # "jobject" THEN Throw("TypeError")
    ELSE Text(Or(Get(asset, "value"), JStr("(binary)")))

Http_write_file_req(args) ==
    Http_shopifyRequest("PUT", <<"themes/", Http_themeId(args.theme_id), "/assets.json">>,
        JObj(<<F("asset", JObj(<<F("key", JStr(JoinTokens(args.key))),
                                 F("value", args.value)>>))>>))
Http_write_file_out(args, data) ==
    LET asset == Get(data, "asset") IN
    IF asset.t # "jobject" THEN Throw("TypeError")
    ELSE Text(JSONStringify(JObj(<<F("success", JBool(TRUE)), F("key", Get(asset, "key"))>>), 0))

Http_duplicate_theme_req(args) ==
    Http_shopifyRequest("POST", <<"themes.json">>,
        JObj(<<F("theme", JObj(<<F("name", args.new_name),
                                 F("role", JStr("unpublished")),
                                 F("src", JStr("https://" \o SHOP \o "/admin/themes/"
                                               \o args.theme_id.s \o "/duplicate"))>>))>>))
Http_duplicate_theme_out(args, data) ==
    LET t == Get(data, "theme") IN
    IF t.t # "jobject" THEN Throw("TypeError")
    ELSE Text(JSONStringify(JObj(<<F("success", JBool(TRUE)), F("id", String(Get(t, "id"))),
                                 F("name", Get(t, "name"))>>), 0))

Http_get_theme_settings_req(args) ==
    Http_shopifyRequest("GET",
        <<"themes/", Http_themeId(args.theme_id), "/assets.json?asset[key]=",
          "config", "%2F", "settings_data.json">>,
        JUndefined)
Http_get_theme_settings_out(args, data) ==
    LET asset == Get(data, "asset") IN
    IF asset.t # "jobject" THEN Throw("TypeError")
    ELSE Text(Or(Get(asset, "value"), JStr("(empty)")))

(***************************************************************************)
(* The tools of src/unnamed/part_000 (pipe variant).                      *)
(***************************************************************************)
\* shopifyRequest up to req.end(): the request that goes out.
Stdio_shopifyRequest(method, path, body) ==
    [hostname |-> SHOP,
     method   |-> method,
     path     |-> <<"/admin/api/", API_VERSION, "/">> \o path,
     headers  |-> [token |-> TOKEN, contentType |-> "application/json",
                   contentLength |-> Truthy(body)],
     body     |-> IF Truthy(body) THEN Wire(body) ELSE NoBody]

\* res.on('end'): reject at status >= 400, else resolve with the parsed
\* body, or with the text itself when it does not parse.
Stdio_onEnd(statusCode, body) ==
    IF statusCode >= 400
    THEN [kind |-> "rejected",
          error |-> [name |-> "Error",
                     message |-> <<"Shopify ", ToString(statusCode), ": ", body.text>>]]
    ELSE [kind |-> "resolved", value |-> IF body.isJson THEN body.json ELSE JStr(body.text)]

\* theme_id || ACTIVE_THEME_ID
Stdio_themeId(theme_id) == Or(theme_id, JStr(ACTIVE_THEME_ID)).s

Stdio_list_themes_req(args) == Stdio_shopifyRequest("GET", <<"themes.json">>, JUndefined)
Stdio_list_themes_out(args, data) ==
    LET list == Get(data, "themes") IN
    IF list.t # "array" THEN Throw("TypeError")
    ELSE Text(JSONStringify(JArr([i \in 1..Len(list.e) |->
            LET t == list.e[i] IN JObj(<<F("id", String(Get(t, "id"))), F("name", Get(t, "name")),
                                    F("role", Get(t, "role"))>>)]), 2))

Stdio_get_active_theme_req(args) ==
    Stdio_shopifyRequest("GET", <<"themes.json?role=main">>, JUndefined)
Stdio_get_active_theme_out(args, data) ==
    LET list == Get(data, "themes") IN
    IF list.t # "array" THEN Throw("TypeError")
    ELSE Text(JSONStringify(IF list.e = <<>> THEN JUndefined ELSE list.e[1], 2))

Stdio_list_theme_files_req(args) ==
    Stdio_shopifyRequest("GET", <<"themes/", Stdio_themeId(args.theme_id), "/assets.json">>,
                       JUndefined)
Stdio_list_theme_files_out(args, data) ==
    LET list == Get(data, "assets") IN
    IF list.t # "array" THEN Throw("TypeError")
    ELSE Text(JSONStringify(JArr([i \in 1..Len(list.e) |->
            LET a == list.e[i] IN Get(a, "key")]), 2))

Stdio_read_file_req(args) ==
    Stdio_shopifyRequest("GET",
        <<"themes/", Stdio_themeId(args.theme_id), "/assets.json?asset[key]=">>
            \o EncodeURIComponent(args.key),
        JUndefined)
Stdio_read_file_out(args, data) ==
    LET asset == Get(data, "asset") IN
    IF asset.t # "jobject" THEN Throw("TypeError")
    ELSE Text(Or(Get(asset, "value"), JStr("(binary)")))

Stdio_write_file_req(args) ==
    Stdio_shopifyRequest("PUT", <<"themes/", Stdio_themeId(args.theme_id), "/assets.json">>,
        JObj(<<F("asset", JObj(<<F("key", JStr(JoinTokens(args.key))),
                                 F("value", args.value)>>))>>))
Stdio_write_file_out(args, data) ==
    LET asset == Get(data, "asset") IN
    IF asset.t # "jobject" THEN Throw("TypeError")
    ELSE Text(JSONStringify(JObj(<<F("success", JBool(TRUE)), F("key", Get(asset, "key")),
                                 F("updated_at", Get(asset, "updated_at"))>>), 0))

Stdio_duplicate_theme_req(args) ==
    Stdio_shopifyRequest("POST", <<"themes.json">>,
        JObj(<<F("theme", JObj(<<F("name", args.new_name),
                                 F("role", JStr("unpublished")),
                                 F("src", JStr("https://" \o SHOP \o "/admin/themes/"
                                               \o args.theme_id.s \o "/duplicate"))>>))>>))
Stdio_duplicate_theme_out(args, data) ==
    LET t == Get(data, "theme") IN
    IF t.t # "jobject" THEN Throw("TypeError")
    ELSE Text(JSONStringify(JObj(<<F("success", JBool(TRUE)), F("id", String(Get(t, "id"))),
                                 F("name", Get(t, "name"))>>), 0))

Stdio_get_theme_settings_req(args) ==
    Stdio_shopifyRequest("GET",
        <<"themes/", Stdio_themeId(args.theme_id), "/assets.json?asset[key]=",
          "config", "%2F", "settings_data.json">>,
        JUndefined)
Stdio_get_theme_settings_out(args, data) ==
    LET asset == Get(data, "asset") IN
    IF asset.t # "jobject" THEN Throw("TypeError")
    ELSE Text(Or(Get(asset, "value"), JStr("(empty)")))

(***************************************************************************)
(* One tool call: the handler issues its request, the response arrives,    *)
(* shopifyRequest settles and the handler formats its result.              *)
(***************************************************************************)
ToolNames == {"shopify_list_themes", "shopify_get_active_theme", "shopify_list_theme_files",
              "shopify_read_file", "shopify_write_file", "shopify_duplicate_theme",
              "shopify_get_theme_settings"}
ThemedTools == {"shopify_list_theme_files", "shopify_read_file", "shopify_write_file",
                "shopify_get_theme_settings"}

\* The arguments the schemas admit (z.string() admits the empty string).
ThemeIdArgs == {JUndefined, JStr(""), JStr(OtherThemeId)}
WriteKeys   == {<<"sections", "/", "h.liquid">>}
ReadKeys    == WriteKeys \cup {<<"a.liquid">>, <<"assets", "/", "b.png">>}
WriteValues == {JStr(""), JStr("v")}

NoArgs == [key |-> <<>>, value |-> JUndefined, theme_id |-> JUndefined, new_name |-> JUndefined]

ToolCalls ==
    {[tool |-> t, args |-> NoArgs] : t \in {"shopify_list_themes", "shopify_get_active_theme"}}
    \cup {[tool |-> t, args |-> [NoArgs EXCEPT !.theme_id = th]] :
            t \in {"shopify_list_theme_files", "shopify_get_theme_settings"}, th \in ThemeIdArgs}
    \cup {[tool |-> "shopify_read_file", args |-> [NoArgs EXCEPT !.key = k, !.theme_id = th]] :
            k \in ReadKeys, th \in ThemeIdArgs}
    \cup {[tool |-> "shopify_write_file",
           args |-> [NoArgs EXCEPT !.key = k, !.value = val, !.theme_id = th]] :
            k \in WriteKeys, val \in WriteValues, th \in ThemeIdArgs}
    \cup {[tool |-> "shopify_duplicate_theme",
           args |-> [NoArgs EXCEPT !.theme_id = JStr(OtherThemeId), !.new_name = JStr("backup")]]}

ToolReq(v, tool, args) ==
    CASE v = "sse" /\ tool = "shopify_list_themes" -> Sse_list_themes_req(args)
      [] v = "sse" /\ tool = "shopify_get_active_theme" -> Sse_get_active_theme_req(args)
      [] v = "sse" /\ tool = "shopify_list_theme_files" -> Sse_list_theme_files_req(args)
      [] v = "sse" /\ tool = "shopify_read_file" -> Sse_read_file_req(args)
      [] v = "sse" /\ tool = "shopify_write_file" -> Sse_write_file_req(args)
      [] v = "sse" /\ tool = "shopify_duplicate_theme" -> Sse_duplicate_theme_req(args)
      [] v = "sse" /\ tool = "shopify_get_theme_settings" -> Sse_get_theme_settings_req(args)
      [] v = "http" /\ tool = "shopify_list_themes" -> Http_list_themes_req(args)
      [] v = "http" /\ tool = "shopify_get_active_theme" -> Http_get_active_theme_req(args)
      [] v = "http" /\ tool = "shopify_list_theme_files" -> Http_list_theme_files_req(args)
      [] v = "http" /\ tool = "shopify_read_file" -> Http_read_file_req(args)
      [] v = "http" /\ tool = "shopify_write_file" -> Http_write_file_req(args)
      [] v = "http" /\ tool = "shopify_duplicate_theme" -> Http_duplicate_theme_req(args)
      [] v = "http" /\ tool = "shopify_get_theme_settings" -> Http_get_theme_settings_req(args)
      [] v = "stdio" /\ tool = "shopify_list_themes" -> Stdio_list_themes_req(args)
      [] v = "stdio" /\ tool = "shopify_get_active_theme" -> Stdio_get_active_theme_req(args)
      [] v = "stdio" /\ tool = "shopify_list_theme_files" -> Stdio_list_theme_files_req(args)
      [] v = "stdio" /\ tool = "shopify_read_file" -> Stdio_read_file_req(args)
      [] v = "stdio" /\ tool = "shopify_write_file" -> Stdio_write_file_req(args)
      [] v = "stdio" /\ tool = "shopify_duplicate_theme" -> Stdio_duplicate_theme_req(args)
      [] v = "stdio" /\ tool = "shopify_get_theme_settings" -> Stdio_get_theme_settings_req(args)

ToolOut(v, tool, args, data) ==
    CASE v = "sse" /\ tool = "shopify_list_themes" -> Sse_list_themes_out(args, data)
      [] v = "sse" /\ tool = "shopify_get_active_theme" -> Sse_get_active_theme_out(args, data)
      [] v = "sse" /\ tool = "shopify_list_theme_files" -> Sse_list_theme_files_out(args, data)
      [] v = "sse" /\ tool = "shopify_read_file" -> Sse_read_file_out(args, data)
      [] v = "sse" /\ tool = "shopify_write_file" -> Sse_write_file_out(args, data)
      [] v = "sse" /\ tool = "shopify_duplicate_theme" -> Sse_duplicate_theme_out(args, data)
      [] v = "sse" /\ tool = "shopify_get_theme_settings" -> Sse_get_theme_settings_out(args, data)
      [] v = "http" /\ tool = "shopify_list_themes" -> Http_list_themes_out(args, data)
      [] v = "http" /\ tool = "shopify_get_active_theme" -> Http_get_active_theme_out(args, data)
      [] v = "http" /\ tool = "shopify_list_theme_files" -> Http_list_theme_files_out(args, data)
      [] v = "http" /\ tool = "shopify_read_file" -> Http_read_file_out(args, data)
      [] v = "http" /\ tool = "shopify_write_file" -> Http_write_file_out(args, data)
      [] v = "http" /\ tool = "shopify_duplicate_theme" -> Http_duplicate_theme_out(args, data)
      [] v = "http" /\ tool = "shopify_get_theme_settings" -> Http_get_theme_settings_out(args, data)
      [] v = "stdio" /\ tool = "shopify_list_themes" -> Stdio_list_themes_out(args, data)
      [] v = "stdio" /\ tool = "shopify_get_active_theme" -> Stdio_get_active_theme_out(args, data)
      [] v = "stdio" /\ tool = "shopify_list_theme_files" -> Stdio_list_theme_files_out(args, data)
      [] v = "stdio" /\ tool = "shopify_read_file" -> Stdio_read_file_out(args, data)
      [] v = "stdio" /\ tool = "shopify_write_file" -> Stdio_write_file_out(args, data)
      [] v = "stdio" /\ tool = "shopify_duplicate_theme" -> Stdio_duplicate_theme_out(args, data)
      [] v = "stdio" /\ tool = "shopify_get_theme_settings" -> Stdio_get_theme_settings_out(args, data)

OnEnd(v, statusCode, body) ==
    CASE v = "sse"   -> Sse_onEnd(statusCode, body)
      [] v = "http"  -> Http_onEnd(statusCode, body)
      [] v = "stdio" -> Stdio_onEnd(statusCode, body)

\* The whole of a call from the response on: shopifyRequest settles, and on
\* a resolve the handler goes on to format its result; a throw in the
\* handler rejects the call like a rejected request does.
Settle(v, tool, args, statusCode, body) ==
    LET settled == OnEnd(v, statusCode, body) IN
    IF settled.kind = "rejected" THEN settled
    ELSE LET res == ToolOut(v, tool, args, settled.value) IN
         IF res.ok THEN [kind |-> "result", text |-> res.text]
         ELSE [kind |-> "rejected", error |-> [name |-> res.error, message |-> <<res.error>>]]

NoCall     == [variant |-> "none", tool |-> "none", args |-> NoArgs]
NoResponse == [status |-> 0, body |-> NoBody]
NoOutcome  == [kind |-> "none"]
NoWrite    == [written |-> FALSE]

Invoke(v, c) ==
    /\ tpc = "idle"
    /\ tpc' = "awaiting"
    /\ call' = [variant |-> v, tool |-> c.tool, args |-> c.args]
    /\ requestLog' = <<ToolReq(v, c.tool, c.args)>>
    /\ UNCHANGED <<themes, assets, response, outcome, lastWrite>>

Respond(mode) ==
    /\ tpc = "awaiting"
    /\ LET r   == Upstream(mode, requestLog[Len(requestLog)], themes, assets)
           out == Settle(call.variant, call.tool, call.args, r.status, r.body)
       IN
       /\ themes' = r.themes
       /\ assets' = r.assets
       /\ response' = [status |-> r.status, body |-> r.body]
       /\ outcome' = out
       /\ lastWrite' =
            IF call.tool = "shopify_write_file" /\ out.kind = "result"
            THEN [written |-> TRUE, key |-> call.args.key, theme_id |-> call.args.theme_id,
                  value |-> call.args.value]
            ELSE IF r.assets # assets THEN NoWrite ELSE lastWrite
    /\ tpc' = "settled"
    /\ UNCHANGED <<call, requestLog>>

\* req.on('error', reject)
NetworkError ==
    /\ tpc = "awaiting"
    /\ tpc' = "settled"
    /\ outcome' = [kind |-> "rejected",
                   error |-> [name |-> "Error", message |-> <<"ECONNRESET">>]]
    /\ UNCHANGED <<themes, assets, call, requestLog, response, lastWrite>>

\* The result has gone back to the client; the next call may come.
Return ==
    /\ tpc = "settled"
    /\ tpc' = "idle"
    /\ call' = NoCall
    /\ requestLog' = <<>>
    /\ response' = NoResponse
    /\ outcome' = NoOutcome
    /\ UNCHANGED <<themes, assets, lastWrite>>

ToolIdle ==
    /\ themes = <<Theme(ACTIVE_THEME_ID, "Dawn", "main"), Theme(OtherThemeId, "Old", "unpublished")>>
    /\ assets = InitialAssets
    /\ tpc = "idle"
    /\ call = NoCall
    /\ requestLog = <<>>
    /\ response = NoResponse
    /\ outcome = NoOutcome
    /\ lastWrite = NoWrite

(***************************************************************************)
(* Specifications.                                                         *)
(***************************************************************************)
InitSSE == SseIdle /\ ProcIdle /\ ToolIdle

NextSSE ==
    \/ \E sid \in SessionIds : SseConnect(sid) /\ UNCHANGED <<procVars, toolVars>>
    \/ \E sid \in SessionIds : StreamClose(sid) /\ UNCHANGED <<procVars, toolVars>>
    \/ \E sid \in PostSessionIds : PostMessage(sid) /\ UNCHANGED <<procVars, toolVars>>
    \/ \E r \in {"OPTIONS", "GET /health", "other"} : OtherRoute(r) /\ UNCHANGED <<procVars, toolVars>>

SpecSSE == InitSSE /\ [][NextSSE]_vars

InitProc ==
    /\ SseIdle
    /\ ToolIdle
    /\ variant \in Variants
    /\ TOKEN \in TokenValues
    /\ ppc = "load"
    /\ exitCode = -1
    /\ signalled = "none"
    /\ killedBy = "none"
    /\ listening = FALSE
    /\ closeCalled = FALSE
    /\ connected = FALSE
    /\ upstreamCalls = 0
    /\ inflight = 0
    /\ aborted = 0

NextProc ==
    \/ CheckToken /\ UNCHANGED <<sseVars, toolVars>>
    \/ Setup /\ UNCHANGED <<sseVars, toolVars>>
    \/ \E connects \in BOOLEAN : AcceptRequest(connects) /\ UNCHANGED <<sseVars, toolVars>>
    \/ IssueUpstream /\ UNCHANGED <<sseVars, toolVars>>
    \/ FinishRequest /\ UNCHANGED <<sseVars, toolVars>>
    \/ \E sig \in Signals : Signal(sig) /\ UNCHANGED <<sseVars, toolVars>>

SpecProc == InitProc /\ [][NextProc]_vars

InitTool ==
    /\ SseIdle
    /\ ProcIdle
    /\ themes \in ThemeFixtures
    /\ assets = InitialAssets
    /\ tpc = "idle"
    /\ call = NoCall
    /\ requestLog = <<>>
    /\ response = NoResponse
    /\ outcome = NoOutcome
    /\ lastWrite = NoWrite

NextTool ==
    \/ \E v \in Variants, c \in ToolCalls : Invoke(v, c) /\ UNCHANGED <<sseVars, procVars>>
    \/ \E mode \in UpstreamModes : Respond(mode) /\ UNCHANGED <<sseVars, procVars>>
    \/ NetworkError /\ UNCHANGED <<sseVars, procVars>>
    \/ Return /\ UNCHANGED <<sseVars, procVars>>

SpecTool == InitTool /\ [][NextTool]_vars

(***************************************************************************)
(* The claims.                                                             *)
(***************************************************************************)
PathPrefix == <<"/admin/api/", API_VERSION, "/">>

\* C1: a POST /message whose session id was never opened, or whose stream
\* has closed, is answered 404 "Session not found" and reaches no
\* transport's handlePostMessage; a message is only ever routed to the
\* live session it names.
C1_UnknownSessionNotFound ==
    lastReq.op = "post" =>
        /\ ~lastReq.live =>
              /\ lastReq.response = "404 Session not found"
              /\ lastReq.handledBy = "none"
        /\ lastReq.handledBy # "none" =>
              /\ lastReq.live
              /\ lastReq.handledBy = lastReq.sid

\* C2: an upstream response with status >= 400 ends the tool call rejected
\* with an error whose message carries that status code and the raw body;
\* one upstream request was issued for the call, and never a second one.
C2_UpstreamErrorRejectsOnce ==
    /\ tpc \in {"awaiting", "settled"} => Len(requestLog) = 1
    /\ (tpc = "settled" /\ response.status >= 400) =>
          /\ outcome.kind = "rejected"
          /\ \E i \in 1..Len(outcome.error.message) :
                outcome.error.message[i] = ToString(response.status)
          /\ \E i \in 1..Len(outcome.error.message) :
                outcome.error.message[i] = response.body.text

C2_Witness ==
    /\ tpc = "settled"
    /\ response.status = 404
    /\ outcome.kind = "rejected"
    /\ call.tool = "shopify_read_file"

\* C3: a read_file that follows a successful write_file of the same key
\* and theme_id, with no write in between, returns exactly the written
\* value - the empty string included.
C3_WriteReadRoundTrip ==
    (/\ tpc = "settled"
     /\ call.tool = "shopify_read_file"
     /\ outcome.kind = "result"
     /\ lastWrite.written
     /\ lastWrite.key = call.args.key
     /\ lastWrite.theme_id = call.args.theme_id)
    => outcome.text = lastWrite.value

\* C4: without an access token the process exits with status 1 as its
\* first step: no upstream request has been issued, no transport connected
\* and no listener started.
C4_NoTokenExitsFirst ==
    TOKEN \in {JUndefined, JStr("")} =>
        /\ ppc \in {"load", "exited"}
        /\ ppc = "exited" => (exitCode = 1 /\ signalled = "none")
        /\ upstreamCalls = 0
        /\ ~connected
        /\ ~listening
        /\ inflight = 0

C4_Witness ==
    /\ TOKEN = JUndefined
    /\ ppc = "exited"
    /\ exitCode = 1

\* C5: the three variants issue the same upstream request for a call and
\* return the same text for the same response.
C5_VariantsAgree ==
    \A v \in Variants :
        /\ tpc \in {"awaiting", "settled"} =>
              requestLog = <<ToolReq(v, call.tool, call.args)>>
        /\ (tpc = "settled" /\ outcome.kind = "result") =>
              Settle(v, call.tool, call.args, response.status, response.body) = outcome

\* C6: read_file returns "(binary)" and get_theme_settings returns
\* "(empty)" when the asset has no text value, with or without an
\* attachment, and the asset's text value otherwise.
C6_Placeholders ==
    (/\ tpc = "settled"
     /\ outcome.kind = "result"
     /\ call.tool \in {"shopify_read_file", "shopify_get_theme_settings"})
    => LET value == Get(Get(response.body.json, "asset"), "value")
           placeholder == IF call.tool = "shopify_read_file" THEN "(binary)" ELSE "(empty)"
       IN  outcome.text = IF value.t = "string" THEN value ELSE JStr(placeholder)

\* C7: get_active_theme issues GET themes.json?role=main and returns the
\* first theme of the response as pretty-printed JSON, or the text "null"
\* when the list is empty.
C7_ActiveThemeOrNull ==
    (tpc \in {"awaiting", "settled"} /\ call.tool = "shopify_get_active_theme") =>
        /\ requestLog[1].method = "GET"
        /\ requestLog[1].path = PathPrefix \o <<"themes.json?role=main">>
        /\ (tpc = "settled" /\ response.status = 200 /\ response.body.isJson) =>
              LET list == Get(response.body.json, "themes").e IN
              /\ outcome.kind = "result"
              /\ outcome.text = IF list = <<>> THEN JStr("null")
                                ELSE JStr(Ser(list[1], 2, 0))

\* C8: in the two HTTP variants a SIGINT or SIGTERM closes the listener,
\* lets the requests in flight finish and then exits with status zero.
C8_GracefulShutdown ==
    (variant \in HttpVariants /\ signalled # "none") =>
        /\ closeCalled
        /\ exitCode = 0
        /\ aborted = 0

\* C9 as stated: the four themed tools use the default theme id when
\* theme_id is omitted and exactly the supplied id whenever one is supplied.
C9_DefaultOnlyWhenOmitted ==
    (tpc \in {"awaiting", "settled"} /\ call.tool \in ThemedTools) =>
        /\ requestLog[1].path[4] = "themes/"
        /\ requestLog[1].path[5] =
              IF call.args.theme_id = JUndefined THEN ACTIVE_THEME_ID
              ELSE call.args.theme_id.s

\* C9 as amended: the four themed tools use the default theme id when
\* theme_id is omitted or is the empty string, and exactly the supplied
\* id when a non-empty one is supplied.
C9_DefaultWhenOmittedOrEmpty ==
    (tpc \in {"awaiting", "settled"} /\ call.tool \in ThemedTools) =>
        /\ requestLog[1].path[4] = "themes/"
        /\ requestLog[1].path[5] =
              IF call.args.theme_id \in {JUndefined, JStr("")} THEN ACTIVE_THEME_ID
              ELSE call.args.theme_id.s

C9_Witness ==
    /\ tpc = "settled"
    /\ call.tool = "shopify_write_file"
    /\ call.args.theme_id = JStr("")
    /\ outcome.kind = "result"
    /\ assets[ACTIVE_THEME_ID]["sections/h.liquid"] # JUndefined

\* C10: the keys of the session map are exactly the sessions whose stream
\* has opened and not yet closed; a connect adds only its own id, a close
\* removes only its own id and leaves every other entry as it was, and no
\* other request changes the map.
C10_KeysAreOpenStreams == DOMAIN transports = opened \ closed

C10_MapStep ==
    LET sid == lastReq'.sid IN
    CASE lastReq'.op = "sse" ->
            /\ sid \notin DOMAIN transports
            /\ DOMAIN transports' = DOMAIN transports \cup {sid}
            /\ transports'[sid].sessionId = sid
            /\ \A k \in DOMAIN transports : transports'[k] = transports[k]
      [] lastReq'.op = "close" ->
            /\ sid \in DOMAIN transports
            /\ DOMAIN transports' = DOMAIN transports \ {sid}
            /\ \A k \in DOMAIN transports' : transports'[k] = transports[k]
      [] OTHER -> transports' = transports

C10_SessionRegistry == [](C10_KeysAreOpenStreams) /\ [][C10_MapStep]_vars

C10_Witness ==
    /\ lastReq.op = "post"
    /\ lastReq.handledBy # "none"
    /\ closed # {}
    /\ Cardinality(DOMAIN transports) >= 2

====
